---- MODULE Spec2Model ----
(***************************************************************************)
(* Model of shared/base.js (Mint Design System utilities):                 *)
(*   - fmtYenParts / fmtAxisYen : yen amount formatting                    *)
(*   - animateNum               : requestAnimationFrame count-up           *)
(*   - showToast                : toast with the module-global _toastTimer *)
(*                                                                         *)
(* Text: TLC strings are ASCII, so the three kanji of the source are       *)
(* written KanjiOku, KanjiMan and KanjiEn.                                 *)
(* Numbers: a yen amount n can exceed the integers of TLC, so it is held   *)
(* in two base-10^8 limbs, n = hi * 100000000 + lo with 0 <= lo < 10^8, or *)
(* is NaN.  floor(n / 10^8) is then hi and, for n >= 0, n % 10^8 is lo.    *)
(* Doubles are modelled by exact rational arithmetic.                      *)
(***************************************************************************)
EXTENDS Integers, Sequences, FiniteSets, TLC

VARIABLES
  amount,      \* fmt: the argument n handed to the formatters
  parts,       \* fmt: outcome of fmtYenParts(amount), or NoResult
  axis,        \* fmt: outcome of fmtAxisYen(amount), or NoResult
  clock,       \* performance.now(), in ms
  frameTs,     \* timestamp of the last animation frame delivered
  rafList,     \* the host's list of pending animation frame callbacks
  nextId,      \* next handle requestAnimationFrame returns
  runs,        \* animateNum activations: closure variables + bookkeeping
  text,        \* el.textContent of the count-up element
  shown,       \* toast: element -> classList contains 'show'
  toastText,   \* toast: element -> textContent
  toastTimer,  \* toast: the module-global _toastTimer
  timers,      \* toast: the host's pending setTimeout timers
  nextTimer,   \* toast: next handle setTimeout returns
  dsToast      \* toast: what document.getElementById('ds-toast') returns

fmtVars   == <<amount, parts, axis>>
animVars  == <<frameTs, rafList, nextId, runs, text>>
toastVars == <<shown, toastText, toastTimer, timers, nextTimer, dsToast>>
vars == <<amount, parts, axis, clock, frameTs, rafList, nextId, runs, text,
          shown, toastText, toastTimer, timers, nextTimer, dsToast>>

-----------------------------------------------------------------------------
(* JavaScript numbers and strings                                          *)

KanjiOku == "<oku>"
KanjiMan == "<man>"
KanjiEn  == "<en>"

Oku == 100000000
Man == 10000

NaN == [nan |-> TRUE, hi |-> 0, lo |-> 0]
Yen(h, l) == [nan |-> FALSE, hi |-> h, lo |-> l]

\* the value of an amount that fits the checker's integers
Val(n) == n.hi * Oku + n.lo

\* a Math.round result: an integer, negative zero, or NaN
Num(v) == [kind |-> "int", v |-> v]
NegZero == [kind |-> "negzero", v |-> 0]
NumNaN == [kind |-> "nan", v |-> 0]

Digit(d) == SubSeq("0123456789", d + 1, d + 1)

RECURSIVE Digits(_)
Digits(k) == IF k < 10 THEN Digit(k) ELSE Digits(k \div 10) \o Digit(k % 10)

Pad3(k) == Digit(k \div 100) \o Digit((k \div 10) % 10) \o Digit(k % 10)

RECURSIVE GroupNat(_)
GroupNat(k) ==
  IF k < 1000 THEN Digits(k)
  ELSE GroupNat(k \div 1000) \o "," \o Pad3(k % 1000)

\* Number.prototype.toLocaleString('ja-JP') of an integer
toLocaleString(k) == IF k < 0 THEN "-" \o GroupNat(-k) ELSE GroupNat(k)

numToLocaleString(x) ==
  CASE x.kind = "nan" -> "NaN"
    [] x.kind = "negzero" -> "-0"
    [] OTHER -> toLocaleString(x.v)

\* Math.round(a / b) for integers a and b > 0: the nearest integer, a tie
\* going towards +Infinity; a quotient in [-0.5, 0) rounds to -0
MathRoundDiv(a, b) ==
  LET r == (2 * a + b) \div (2 * b)
  IN IF a < 0 /\ r = 0 THEN NegZero ELSE Num(r)

-----------------------------------------------------------------------------
(* fmtYenParts, fmtAxisYen                                                 *)

NoResult == [kind |-> "none"]
Returned(v) == [kind |-> "return", value |-> v]

fmtYenParts_NoRound(n) ==
  IF (~n.nan) /\ n.hi >= 1
  THEN LET oku == n.hi
           man == n.lo \div Man
       IN IF man = 0
          THEN [num |-> toLocaleString(oku), unit |-> KanjiOku \o KanjiEn]
          ELSE [num |-> toLocaleString(oku) \o KanjiOku \o toLocaleString(man),
                unit |-> KanjiMan \o KanjiEn]
  ELSE [num |-> IF n.nan THEN "NaN"
                ELSE numToLocaleString(Num(Val(n) \div Man)),
        unit |-> KanjiMan \o KanjiEn]

\* n = Math.round(n) is the identity on the integer amounts and on NaN
fmtYenParts(n) ==
  IF (~n.nan) /\ n.hi >= 1                       \* n >= 100_000_000
  THEN LET oku == n.hi                           \* Math.floor(n / 1e8)
           man == MathRoundDiv(n.lo, Man).v      \* Math.round((n % 1e8) / 1e4)
       IN IF man = 0
          THEN [num |-> toLocaleString(oku), unit |-> KanjiOku \o KanjiEn]
          ELSE [num |-> toLocaleString(oku) \o KanjiOku \o toLocaleString(man),
                unit |-> KanjiMan \o KanjiEn]
  ELSE [num |-> IF n.nan THEN numToLocaleString(NumNaN)
                ELSE numToLocaleString(MathRoundDiv(Val(n), Man)),
        unit |-> KanjiMan \o KanjiEn]

\* (x).toFixed(1) of x = n / 1e8 >= 1: the tenths nearest to x, the larger
\* one on a tie, printed without grouping
toFixed1(n) ==
  LET t == 10 * n.hi + (n.lo + (Oku \div 20)) \div (Oku \div 10)
  IN Digits(t \div 10) \o "." \o Digit(t % 10)

\* s.replace(/\.0$/, '')
stripDotZero(s) ==
  IF Len(s) >= 2 /\ SubSeq(s, Len(s) - 1, Len(s)) = ".0"
  THEN SubSeq(s, 1, Len(s) - 2)
  ELSE s

fmtAxisYen_Grouped(n) ==
  IF (~n.nan) /\ n.hi >= 1
  THEN LET t == 10 * n.hi + (n.lo + (Oku \div 20)) \div (Oku \div 10)
       IN stripDotZero(toLocaleString(t \div 10) \o "." \o Digit(t % 10))
            \o KanjiOku
  ELSE (IF n.nan THEN "NaN"
        ELSE numToLocaleString(MathRoundDiv(Val(n), Man))) \o KanjiMan

fmtAxisYen(n) ==
  IF (~n.nan) /\ n.hi >= 1                       \* n >= 100_000_000
  THEN stripDotZero(toFixed1(n)) \o KanjiOku
  ELSE (IF n.nan THEN numToLocaleString(NumNaN)
        ELSE numToLocaleString(MathRoundDiv(Val(n), Man))) \o KanjiMan


fmtYen(n) == LET r == fmtYenParts(n) IN r.num \o r.unit

-----------------------------------------------------------------------------
(* animateNum                                                              *)

MaxTick == 5            \* instants modelled: 0, 175, ..., 175 * MaxTick ms
MaxRuns == 2            \* animateNum calls on the element

DefaultMs == 700

Instants == {(DefaultMs \div 4) * k : k \in 0..MaxTick}
MaxTime == (DefaultMs \div 4) * MaxTick
RunIds == 1..MaxRuns
Values == {0, 1000}
Durations == {DefaultMs \div 2, DefaultMs}
Formatters == {"null", "fmtYen"}

RECURSIVE GCD(_, _)
GCD(a, b) == IF b = 0 THEN a ELSE GCD(b, a % b)

Abs(x) == IF x < 0 THEN -x ELSE x

Pow4(x) == x * x * x * x

\* an integer as an amount (two limbs)
AsAmount(v) == Yen(v \div Oku, v % Oku)

progressIsOne_Late(now, t0, ms) == now - t0 > ms

\* p = Math.min((now - t0) / ms, 1) is 1
progressIsOne(now, t0, ms) == now - t0 >= ms

curAt_EaseSign(from, to, ms, t0, now) ==
  IF now - t0 >= ms THEN Num(to)
  ELSE LET g == GCD(Abs(now - t0), ms)
           a == (now - t0) \div g
           b == ms \div g
           d == Pow4(b)
       IN MathRoundDiv(from * d + (to - from) * Pow4(b - a), d)

\* cur = Math.round(from + (to - from) * ease), ease = 1 - (1 - p)^4 and
\* p = Math.min((now - t0) / ms, 1), computed exactly with p = a / b
curAt(from, to, ms, t0, now) ==
  IF now - t0 >= ms THEN Num(to)
  ELSE LET g == GCD(Abs(now - t0), ms)
           a == (now - t0) \div g
           b == ms \div g
           d == Pow4(b)
       IN MathRoundDiv(from * d + (to - from) * (d - Pow4(b - a)), d)

\* curAt over the arguments the model uses, as a table of elapsed time
Elapsed == {t - u : t \in Instants, u \in Instants}
curTable ==
  [from \in Values, to \in Values, ms \in Durations, e \in Elapsed |->
     curAt(from, to, ms, 0, e)]

\* fmt ? fmt(cur) : cur.toLocaleString('ja-JP')
display(fmt, cur) ==
  IF fmt = "fmtYen"
  THEN (IF cur.kind = "int" THEN fmtYen(AsAmount(cur.v))
        ELSE numToLocaleString(cur) \o KanjiMan \o KanjiEn)  \* fmtYen(-0)
  ELSE numToLocaleString(cur)

UnusedRun ==
  [st |-> "unused", from |-> 0, to |-> 0, ms |-> 0, fmt |-> "null", t0 |-> 0,
   handle |-> 0, rafId |-> 0, cancelled |-> FALSE, nw |-> 0, cur |-> 0,
   out |-> ""]

\* one call of step(now) in the activation r, from the state s
\* s = [runs, text, list, nextId]: list collects what step re-requests
step(s, r, now) ==
  LET run == s.runs[r]
      cur == curTable[run.from, run.to, run.ms, now - run.t0]
      txt == display(run.fmt, cur)
      again == ~progressIsOne(now, run.t0, run.ms)        \* p < 1
  IN [runs |-> [s.runs EXCEPT ![r] =
                  [run EXCEPT !.nw = @ + 1, !.cur = cur.v, !.out = txt,
                              !.rafId = IF again THEN s.nextId ELSE @,
                              !.st = IF again THEN "running" ELSE "done"]],
      text |-> txt,
      list |-> IF again THEN Append(s.list, [id |-> s.nextId, run |-> r])
               ELSE s.list,
      nextId |-> IF again THEN s.nextId + 1 ELSE s.nextId]

\* the host runs the callbacks of the frame in the order they were requested
RECURSIVE runCallbacks(_, _, _, _)
runCallbacks(cbs, i, s, now) ==
  IF i > Len(cbs) THEN s
  ELSE runCallbacks(cbs, i + 1, step(s, cbs[i].run, now), now)

\* animateNum(el, from, to, ms, fmt): the r-th call on the element
animateNum(r, from, to, ms, fmt) ==
  /\ runs[r].st = "unused"
  /\ (r > 1 => runs[r - 1].st # "unused")
  /\ clock + ms <= MaxTime
  /\ runs' = [runs EXCEPT ![r] =
                [UnusedRun EXCEPT !.st = "running", !.from = from, !.to = to,
                                  !.ms = ms, !.fmt = fmt, !.t0 = clock,
                                  !.handle = nextId, !.rafId = nextId]]
  /\ rafList' = Append(rafList, [id |-> nextId, run |-> r])
  /\ nextId' = nextId + 1
  /\ UNCHANGED <<clock, frameTs, text>>
  /\ UNCHANGED fmtVars
  /\ UNCHANGED toastVars

\* time passes
Advance ==
  /\ \E t \in Instants : t > clock /\ clock' = t
  /\ UNCHANGED animVars
  /\ UNCHANGED fmtVars
  /\ UNCHANGED toastVars

\* the host delivers an animation frame with timestamp now: later than the
\* previous frame's, not later than the clock, and possibly earlier than
\* the performance.now() a caller read before the callbacks run
Frame ==
  \E now \in Instants :
    /\ frameTs < now
    /\ now <= clock
    /\ LET s == runCallbacks(rafList, 1,
                  [runs |-> runs, text |-> text, list |-> <<>>,
                   nextId |-> nextId], now)
       IN /\ runs' = s.runs
          /\ text' = s.text
          /\ rafList' = s.list
          /\ nextId' = s.nextId
    /\ frameTs' = now
    /\ UNCHANGED clock
    /\ UNCHANGED fmtVars
    /\ UNCHANGED toastVars

\* the caller cancels the handle animateNum returned, before the run has
\* completed: cancelAnimationFrame(handle)
Cancel(r) ==
  /\ runs[r].st = "running"
  /\ ~runs[r].cancelled
  /\ rafList' = SelectSeq(rafList, LAMBDA c : c.id # runs[r].handle)
  /\ runs' = [runs EXCEPT ![r].cancelled = TRUE]
  /\ UNCHANGED <<clock, frameTs, nextId, text>>
  /\ UNCHANGED fmtVars
  /\ UNCHANGED toastVars

-----------------------------------------------------------------------------
(* showToast                                                               *)

MaxToasts == 3          \* showToast calls that reach setTimeout

DsToast == "#ds-toast"   \* the element with id 'ds-toast'
Elements == {DsToast, "#custom"}
Null == "null"
Messages == {"saved"}
ToastDurations == {350, 700}

\* showToast(msg, duration, el)
showToast(msg, duration, el) ==
  LET t == IF el # Null THEN el ELSE dsToast
  IN /\ nextTimer <= MaxToasts
     /\ clock + duration <= MaxTime
     /\ IF t = Null
        THEN UNCHANGED <<shown, toastText, toastTimer, timers, nextTimer>>
        ELSE /\ toastText' = [toastText EXCEPT ![t] = msg]
             /\ shown' = [shown EXCEPT ![t] = TRUE]
             /\ timers' = {x \in timers : x.id # toastTimer}
                            \cup {[id |-> nextTimer, el |-> t,
                                   due |-> clock + duration]}
             /\ toastTimer' = nextTimer
             /\ nextTimer' = nextTimer + 1
     /\ UNCHANGED <<clock, dsToast>>
     /\ UNCHANGED animVars
     /\ UNCHANGED fmtVars

\* a timer set by showToast expires: () => t.classList.remove('show')
TimerFire ==
  \E x \in timers :
    /\ clock >= x.due
    /\ shown' = [shown EXCEPT ![x.el] = FALSE]
    /\ timers' = timers \ {x}
    /\ UNCHANGED <<toastText, toastTimer, nextTimer, dsToast, clock>>
    /\ UNCHANGED animVars
    /\ UNCHANGED fmtVars

-----------------------------------------------------------------------------
(* calls of the formatters                                                 *)

HiSamples == {0, 1, 2, 12, 999, 1000, 1234, 1234567}
LoSamples == {0, 1, 4999, 5000, 9999, 10000, 1234000, 4999999, 5000000,
              15000000, 23456789, 56000000, 95000000, 99994999, 99995000,
              99999999}
Amounts == {Yen(h, l) : h \in HiSamples, l \in LoSamples}
             \cup {Yen(-1, Oku - 5), Yen(-1, Oku - 5000), Yen(-1, 0),
                   Yen(-3, 12345), NaN}

CallFmtYenParts ==
  /\ parts' = Returned(fmtYenParts(amount))
  /\ UNCHANGED <<amount, axis, clock>>
  /\ UNCHANGED animVars
  /\ UNCHANGED toastVars

CallFmtAxisYen ==
  /\ axis' = Returned(fmtAxisYen(amount))
  /\ UNCHANGED <<amount, parts, clock>>
  /\ UNCHANGED animVars
  /\ UNCHANGED toastVars

-----------------------------------------------------------------------------
(* specifications                                                          *)

Init ==
  /\ amount = Yen(0, 0)
  /\ parts = NoResult
  /\ axis = NoResult
  /\ clock = 0
  /\ frameTs = 0
  /\ rafList = <<>>
  /\ nextId = 1
  /\ runs = [r \in RunIds |-> UnusedRun]
  /\ text = ""
  /\ shown = [e \in Elements |-> FALSE]
  /\ toastText = [e \in Elements |-> ""]
  /\ toastTimer = 0
  /\ timers = {}
  /\ nextTimer = 1
  /\ dsToast = DsToast

Start(r) ==
  \E from \in Values, ms \in Durations, fmt \in Formatters :
    \E to \in Values \ {from} :
      animateNum(r, from, to, ms, fmt)

\* the count-up element: any number of overlapping runs, cancellable
Next ==
  \/ \E r \in RunIds : Start(r)
  \/ Advance
  \/ Frame
  \/ \E r \in RunIds : Cancel(r)

Spec == Init /\ [][Next]_vars

\* a single run that is never cancelled; FairSingle: under a fair clock
\* and a fair frame scheduler
SingleNext ==
  \/ Start(1)
  \/ Advance
  \/ Frame

SingleSpec == Init /\ [][SingleNext]_vars

FairSingle == SingleSpec /\ WF_vars(Advance) /\ WF_vars(Frame)

\* the formatters applied to one amount
FmtInit ==
  /\ Init!2 /\ Init!3 /\ Init!4 /\ Init!5 /\ Init!6 /\ Init!7 /\ Init!8
  /\ Init!9 /\ Init!10 /\ Init!11 /\ Init!12 /\ Init!13 /\ Init!14 /\ Init!15
  /\ amount \in Amounts

FmtNext ==
  \/ CallFmtYenParts
  \/ CallFmtAxisYen

FmtSpec == FmtInit /\ [][FmtNext]_vars

\* toasts on a page with or without the #ds-toast element
ToastInit ==
  /\ Init!1 /\ Init!2 /\ Init!3 /\ Init!4 /\ Init!5 /\ Init!6 /\ Init!7
  /\ Init!8 /\ Init!9 /\ Init!10 /\ Init!11 /\ Init!12 /\ Init!13 /\ Init!14
  /\ dsToast \in {DsToast, Null}

ToastNext ==
  \/ \E msg \in Messages, d \in ToastDurations,
        el \in {Null, dsToast, "#custom"} :
       showToast(msg, d, el)
  \/ TimerFire
  \/ Advance

ToastSpec == ToastInit /\ [][ToastNext]_vars

-----------------------------------------------------------------------------
(* properties of the formatters                                            *)

\* a valid amount: a non-negative integer
Valid(n) == (~n.nan) /\ n.hi >= 0

\* thousands separators, placed from the right of the decimal digits
RECURSIVE group(_)
group(k) ==
  LET s == Digits(k)
  IN IF Len(s) <= 3 THEN s
     ELSE group(k \div 1000) \o "," \o SubSeq(s, Len(s) - 2, Len(s))

\* the nearest integer to a / b (a >= 0, b > 0), a half going up
round(a, b) == (a + b \div 2) \div b

ManEn == KanjiMan \o KanjiEn
OkuEn == KanjiOku \o KanjiEn

\* the three shapes of a fmtYenParts result
C1_Shape ==
  (parts.kind = "return" /\ Valid(amount)) =>
    LET oku == amount.hi
        man == round(amount.lo, 10000)
    IN parts.value =
         IF oku >= 1
         THEN (IF man = 0
               THEN [num |-> group(oku), unit |-> OkuEn]
               ELSE [num |-> group(oku) \o KanjiOku \o group(man),
                     unit |-> ManEn])
         ELSE [num |-> group(man), unit |-> ManEn]

\* the examples: 0, 1,234,000, 123,456,789 and 100,000,000
C1_Examples ==
  parts.kind = "return" =>
    /\ amount = Yen(0, 0) => parts.value = [num |-> "0", unit |-> ManEn]
    /\ amount = Yen(0, 1234000) =>
         parts.value = [num |-> "123", unit |-> ManEn]
    /\ amount = Yen(1, 23456789) =>
         parts.value = [num |-> "1" \o KanjiOku \o "2,346", unit |-> ManEn]
    /\ amount = Yen(1, 0) => parts.value = [num |-> "1", unit |-> OkuEn]

\* C1: for a non-negative integer amount n, fmtYenParts(n) is
\*   {group(oku), "oku-en"} when n >= 10^8 and man = 0,
\*   {group(oku) + "oku" + group(man), "man-en"} when n >= 10^8 and man # 0,
\*   {group(round(n / 10^4)), "man-en"} when n < 10^8,
\* with oku = floor(n / 10^8) and man = round((n mod 10^8) / 10^4); and the
\* four examples of the specification come out as stated.
C1_Thm == C1_Shape /\ C1_Examples

C1_Witness ==
  /\ parts.kind = "return"
  /\ amount = Yen(1234, 23456789)
  /\ parts.value.num = "1,234" \o KanjiOku \o "2,346"

\* C6: fmtYenParts called with a negative amount or NaN fails with an
\* InvalidArgument error and returns no {num, unit} result.
C6_Claim ==
  (parts.kind = "return") => Valid(amount)

\* C7: for a non-negative integer amount n, fmtAxisYen(n) is, when
\* n >= 10^8, n / 10^8 rounded to the nearest tenth, written without
\* grouping and without a trailing ".0", followed by "oku"; otherwise
\* group(round(n / 10^4)) followed by "man".  fmtAxisYen(123456789) is
\* "1.2oku" and fmtAxisYen(1234000) is "123man".
C7_Thm ==
  (axis.kind = "return" /\ Valid(amount)) =>
    /\ amount.hi >= 1 =>
         \E i \in 0..1 :
           LET t == 10 * amount.hi + amount.lo \div 10000000 + i
           IN \* t tenths is a nearest tenth to n / 10^8
              /\ Abs(i * 10000000 - (amount.lo % 10000000)) <= 5000000
              /\ axis.value =
                   Digits(t \div 10)
                     \o (IF t % 10 = 0 THEN "" ELSE "." \o Digits(t % 10))
                     \o KanjiOku
    /\ amount.hi = 0 =>
         axis.value = group(round(amount.lo, 10000)) \o KanjiMan
    /\ amount = Yen(1, 23456789) => axis.value = "1.2" \o KanjiOku
    /\ amount = Yen(0, 1234000) => axis.value = "123" \o KanjiMan

C7_Witness ==
  /\ axis.kind = "return"
  /\ amount = Yen(1234, 56000000)
  /\ axis.value = "1234.6" \o KanjiOku

\* whether the string s ends with the string e
EndsWith(s, e) ==
  Len(s) >= Len(e) /\ SubSeq(s, Len(s) - Len(e) + 1, Len(s)) = e

\* C8: for a non-negative integer amount n, the man numeral fmtYenParts(n)
\* displays is at most 9,999: no output reads "10,000man-en" or
\* "N oku 10,000man-en".
C8_Claim ==
  (parts.kind = "return" /\ Valid(amount) /\ parts.value.unit = ManEn) =>
    ~EndsWith(parts.value.num, "10,000")

-----------------------------------------------------------------------------
(* properties of animateNum                                                *)

Started(r) == runs[r].st # "unused"
Pending(r) == \E i \in 1..Len(rafList) : rafList[i].run = r

\* the run is done exactly when a tick has seen now - t0 >= ms, and then
\* `to` is displayed and no tick is pending
C2_Final ==
  /\ (runs[1].st = "done") <=>
       (Started(1) /\ frameTs - runs[1].t0 >= runs[1].ms)
  /\ runs[1].st = "done" =>
       /\ runs[1].cur = runs[1].to
       /\ text = display(runs[1].fmt, Num(runs[1].to))
       /\ ~Pending(1)
       /\ (runs[1].from = 0 /\ runs[1].to = 1000 /\ runs[1].ms = 700
             /\ runs[1].fmt = "null") => text = "1,000"

\* C2: a single run with ms > 0 terminates under a fair frame scheduler:
\* the run is done exactly once a tick has seen now - t0 >= ms, that tick
\* wrote `to` (formatted; "1,000" for animateNum(el, 0, 1000, 700)) whatever
\* ticks came before it, and no tick of the run is pending afterwards.
C2_Thm == []C2_Final /\ (Started(1) ~> (runs[1].st = "done"))

C2_Witness ==
  /\ runs[1].st = "done"
  /\ runs[1].from = 0 /\ runs[1].to = 1000 /\ runs[1].ms = 700
  /\ runs[1].fmt = "null"
  /\ runs[1].nw >= 3
  /\ text = "1,000"

\* C3: once the caller has cancelled the handle animateNum returned, before
\* the first tick or between two ticks of the run, the run writes nothing
\* more to the element.
C3_Claim ==
  [][\A r \in RunIds : runs[r].cancelled => runs'[r].nw = runs[r].nw]_vars

\* C4: over a run, with frame timestamps that do not decrease, each value
\* written is >= the previous one when to > from and <= the previous one
\* when to < from.
C4_Thm ==
  [][\A r \in RunIds :
       (runs[r].nw > 0 /\ runs'[r].nw > runs[r].nw) =>
         /\ runs[r].to > runs[r].from => runs'[r].cur >= runs[r].cur
         /\ runs[r].to < runs[r].from => runs'[r].cur <= runs[r].cur]_vars

C4_Witness ==
  /\ runs[1].nw >= 3
  /\ runs[1].to < runs[1].from
  /\ runs[1].cur < runs[1].from
  /\ runs[1].cur > runs[1].to

\* C5: every value written to the element lies between from and to
\* inclusive, for every frame timestamp the host may deliver.
C5_Claim ==
  \A r \in RunIds :
    runs[r].nw > 0 =>
      \/ runs[r].from <= runs[r].cur /\ runs[r].cur <= runs[r].to
      \/ runs[r].to <= runs[r].cur /\ runs[r].cur <= runs[r].from

\* C9: when several runs were started on the element and none was
\* cancelled, once all of them have terminated the element displays the
\* `to` value of the run started last.
C9_Claim ==
  LET started == {r \in RunIds : Started(r)}
  IN (/\ started # {}
      /\ \A r \in started : runs[r].st = "done" /\ ~runs[r].cancelled) =>
       LET last == CHOOSE r \in started : \A q \in started : q <= r
       IN text = display(runs[last].fmt, Num(runs[last].to))

-----------------------------------------------------------------------------
(* properties of showToast                                                 *)

\* C10: every element a showToast call made visible is hidden again once
\* the timers have fired: when no timer is pending, no element still
\* carries the class 'show'.
C10_Claim ==
  timers = {} => \A e \in Elements : ~shown[e]

====
